---- MODULE Spec2Model ----
(***************************************************************************)
(* Model of TStat.py: the read path of the thermostat client (TStat._get,  *)
(* the response cache of CacheEntry objects, setCacheExpiry and the public *)
(* accessors).                                                              *)
(*                                                                          *)
(* Time is counted in whole ticks of the wall clock (datetime.now()), which *)
(* is taken never to run backwards.  A                                      *)
(* Python string that the code splits (a jsonPath) or uses as a dict key    *)
(* is a sequence of tokens, "/" being a token of its own, so that           *)
(* str.split("/") and dict indexing by the unsplit string are both          *)
(* computed and not assumed.                                                *)
(***************************************************************************)
EXTENDS Integers, Sequences, FiniteSets, TLC

VARIABLES now, cacheExpiry, cache, api, last, fetchedBy, threads

vars == <<now, cacheExpiry, cache, api, last, fetchedBy, threads>>

(***************************************************************************)
(* Bounds of the model.                                                     *)
(***************************************************************************)
MaxTime == 2
MaxTTL == 2
MaxCallTicks == 1

(***************************************************************************)
(* Python / JSON values.  One record shape for all of them.                 *)
(***************************************************************************)
NoFields == <<>>
Null == [k |-> "null", n |-> 0, s |-> "", o |-> NoFields]
Num(n) == [k |-> "num", n |-> n, s |-> "", o |-> NoFields]
Str(s) == [k |-> "str", n |-> 0, s |-> s, o |-> NoFields]
Obj(f) == [k |-> "obj", n |-> 0, s |-> "", o |-> f]
Tuple2(a, b) == [k |-> "tuple", n |-> 0, s |-> "", o |-> (<<"0">> :> a) @@ (<<"1">> :> b)]

\* Outcome of a Python call: a returned value or a raised exception.
Return(v) == [kind |-> "return", val |-> v]
Raise(e) == [kind |-> e, val |-> Null]

\* d[key] for a Python value d: a dict gives the value or KeyError, any
\* other value (number, string, None) gives TypeError.
Index(d, key) ==
  IF d.k # "obj" THEN Raise("TypeError")
  ELSE IF key \in DOMAIN d.o THEN Return(d.o[key])
  ELSE Raise("KeyError")

\* path.split("/"): the chunks between the "/" tokens, empty chunks kept.
RECURSIVE SplitFrom(_, _, _)
SplitFrom(path, i, cur) ==
  IF i > Len(path) THEN <<cur>>
  ELSE IF path[i] = "/" THEN <<cur>> \o SplitFrom(path, i + 1, <<>>)
  ELSE SplitFrom(path, i + 1, Append(cur, path[i]))

Split(path) == SplitFrom(path, 1, <<>>)

\* for key in keys: response = response[key]
RECURSIVE Descend(_, _, _)
Descend(response, keys, i) ==
  IF i > Len(keys) THEN Return(response)
  ELSE LET step == Index(response, keys[i])
       IN IF step.kind # "return" THEN step
          ELSE Descend(step.val, keys, i + 1)

(***************************************************************************)
(* The Endpoint Registry handed to TStat(address, api=...).  API.py is not  *)
(* part of the sources; the table below is one registry of the shape        *)
(* _get reads: api.has_key(key), api[key].getters, api[key].valueMap.       *)
(* A getter is <<location, jsonPath>>.                                      *)
(***************************************************************************)
NoMap == [none |-> TRUE, map |-> NoFields]
Map(f) == [none |-> FALSE, map |-> f]
APIEntry(getters, valueMap) == [getters |-> getters, valueMap |-> valueMap]

\* The registry of the scenario of the module's usage comment: two keys
\* served by the one endpoint /tstat.
ScenarioAPI ==
  ("fmode" :> APIEntry(<< <<"/tstat", <<"fmode">>>> >>,
                       Map((Num(0) :> Str("off")) @@ (Num(1) :> Str("auto")))))
  @@ ("tmode" :> APIEntry(<< <<"/tstat", <<"tmode">>>> >>, NoMap))

\* Keys with two candidate getters, over the same two endpoints in both
\* orders.
SetPointAPI ==
  ("t_heat" :> APIEntry(<< <<"/tstat/ttemp", <<"t_heat">>>>,
                           <<"/tstat", <<"t_heat">>>> >>,
                        Map(Num(70) :> Str("warm"))))
  @@ ("t_cool" :> APIEntry(<< <<"/tstat", <<"t_cool">>>>,
                              <<"/tstat/ttemp", <<"t_cool">>>> >>, NoMap))

\* A key whose jsonPath leads into a sub-dictionary.
DatalogAPI ==
  "today_heat_runtime" :>
     APIEntry(<< <<"/tstat/datalog", <<"today", "/", "heat_runtime">>>> >>,
              Map(Num(42) :> Str("long")))

\* A key with three candidate getters over three endpoints, each with a
\* jsonPath of its own, and a key that fetches the middle one and has two
\* getters for that one endpoint.
TriAPI ==
  ("t_heat" :> APIEntry(<< <<"/tstat", <<"t_heat">>>>,
                           <<"/tstat/ttemp", <<"t_heat">>>>,
                           <<"/tstat/datalog", <<"today", "/", "t_heat">>>> >>, NoMap))
  @@ ("t_cool" :> APIEntry(<< <<"/tstat/ttemp", <<"t_cool">>>>,
                              <<"/tstat/ttemp", <<"it_cool">>>> >>, NoMap))

Registries == {ScenarioAPI, SetPointAPI, DatalogAPI, TriAPI}

\* A key that none of the registries holds.
UnknownKey == "model"

\* API(): the registry a client built without api= holds while it asks
\* the device for its model.
BaseAPI == "model" :> APIEntry(<< <<"/tstat/model", <<"model">>>> >>, NoMap)

\* getAPI(model): the registry of a device model.
GetAPI(model) ==
  IF model = Str("CT50") THEN BaseAPI @@ DatalogAPI ELSE BaseAPI @@ ScenarioAPI

\* self.api before __init__ has assigned it.
NoAPI == <<>>

Locations == {"/tstat", "/tstat/ttemp", "/tstat/datalog", "/tstat/model"}

\* api.has_key(key)
HasKey(reg, key) == key \in DOMAIN reg

(***************************************************************************)
(* The device and the transport: what conn.request("GET", location)         *)
(* followed by conn.getresponse().read() can give.                          *)
(***************************************************************************)
TstatA ==
  Obj((<<"fmode">> :> Num(1)) @@ (<<"tmode">> :> Num(2))
      @@ (<<"t_heat">> :> Num(68)) @@ (<<"t_cool">> :> Num(75)))
TstatB ==
  Obj((<<"fmode">> :> Num(5)) @@ (<<"tmode">> :> Null)
      @@ (<<"t_cool">> :> Obj(<<"t_cool">> :> Num(74))))
TtempA == Obj((<<"t_heat">> :> Num(70)) @@ (<<"t_cool">> :> Num(76)))
DatalogA == Obj(<<"today">> :> Obj(<<"heat_runtime">> :> Num(42)))
DatalogB == Obj(<<"today">> :> Obj(NoFields))

ModelCT30 == Obj(<<"model">> :> Str("CT30"))
ModelCT50 == Obj(<<"model">> :> Str("CT50"))

Payloads(location) ==
  IF location = "/tstat" THEN {TstatA, TstatB}
  ELSE IF location = "/tstat/ttemp" THEN {TtempA}
  ELSE IF location = "/tstat/model" THEN {ModelCT30, ModelCT50}
  ELSE {DatalogA, DatalogB}

\* conn: the request went through; json: the body read is a JSON document.
Refused == [conn |-> FALSE, status |-> 0, json |-> FALSE, body |-> Null]
NotFound == [conn |-> TRUE, status |-> 404, json |-> FALSE, body |-> Null]
Ok(body) == [conn |-> TRUE, status |-> 200, json |-> TRUE, body |-> body]

\* A non-success status whose body is a JSON document; the device of the
\* model answers so for its datalog only.
ErrorBody == Obj(<<"error">> :> Null)
Unavailable == [conn |-> TRUE, status |-> 503, json |-> TRUE, body |-> ErrorBody]

Responses(location) ==
  {Refused, NotFound} \cup {Ok(p) : p \in Payloads(location)}
  \cup (IF location = "/tstat/datalog" THEN {Unavailable} ELSE {})

(***************************************************************************)
(* The clock.  A call reads datetime.now() several times: getter i of the   *)
(* cache loop up to three times, reads 3(i-1)+1 .. 3(i-1)+3 (the validity   *)
(* test, then the left and the right operand of the comparison with the     *)
(* newest entry so far), and the CacheEntry of a live fetch once more.      *)
(* Up to MaxCallTicks ticks of the clock fall into a call; tk[j] is the     *)
(* read before which tick j falls, 0 if it does not fall into the call.     *)
(* The first getter compares with nothing, so a tick before one of its      *)
(* reads is a tick before the call (the action Tick) or before read 4.      *)
(* A getter whose endpoint is not in the cache reads no clock, so a tick    *)
(* before one of its reads is a tick before the next read that is made;     *)
(* the last read stands for the end of the call as well.                    *)
(***************************************************************************)
Reads(getters) == 3 * Len(getters) + 1

TickPoints(getters, cch) ==
  {0, Reads(getters)}
  \cup {r \in 4..(Reads(getters) - 1) : getters[((r - 1) \div 3) + 1][1] \in DOMAIN cch}

TickPlacements(getters, cch) ==
  {tk \in [1..MaxCallTicks -> TickPoints(getters, cch)] :
     \A j \in 1..(MaxCallTicks - 1) : tk[j] <= tk[j + 1]}

NoTicks == [j \in 1..MaxCallTicks |-> 0]

\* datetime.now() at the r-th read of a call entered at time t
Clk(t, tk, r) == t + Cardinality({j \in DOMAIN tk : tk[j] # 0 /\ tk[j] <= r})

\* the clock when the call returns
ClkEnd(t, tk) == t + Cardinality({j \in DOMAIN tk : tk[j] # 0})

(***************************************************************************)
(* CacheEntry                                                               *)
(***************************************************************************)
CacheEntry(location, data, t) == [location |-> location, data |-> data, time |-> t]

Age(cacheEntry, t) == t - cacheEntry.time

(***************************************************************************)
(* TStat._get                                                               *)
(***************************************************************************)
EntryValidInclusive(age, ttl) == age <= ttl

EntryValidZeroForever(age, ttl) == ttl = 0 \/ age < ttl

\* cacheEntry.age() < self.cacheExpiry
EntryValid(age, ttl) == age < ttl

FresherOldest(age, newestAge) == age > newestAge

\* cacheEntry.age() < self.cache[newest[0]].age()
Fresher(age, newestAge) == age < newestAge

\* The cache loop.  newest is the index of the getter held by the local
\* variable newest, 0 for None.  Getter i reads the clock up to three times:
\* for the validity test, then for the left and the right operand of the
\* comparison with the newest entry so far.
RECURSIVE Scan(_, _, _, _, _, _, _)
Scan(getters, cch, ttl, t, tk, i, newest) ==
  IF i > Len(getters) THEN newest
  ELSE LET location == getters[i][1]
           r == 3 * (i - 1)
           valid == /\ location \in DOMAIN cch
                    /\ EntryValid(Age(cch[location], Clk(t, tk, r + 1)), ttl)
           wins == \/ newest = 0
                   \/ Fresher(Age(cch[location], Clk(t, tk, r + 2)),
                              Age(cch[getters[newest][1]], Clk(t, tk, r + 3)))
       IN Scan(getters, cch, ttl, t, tk, i + 1,
               IF valid /\ wins THEN i ELSE newest)

FetchLastGetter(getters) == getters[Len(getters)]

FetchSecondGetter(getters) == getters[IF Len(getters) > 1 THEN 2 ELSE 1]

\* The getter the live GET is addressed to: getter = entry.getters[0]
FetchGetter(getters) == getters[1]

\* The binding of the local variable getter when the extraction loop runs:
\* after a live fetch the getter fetched, after a cache hit the loop
\* variable of the cache loop, which is the last getter of the list.
PathGetter(getters, newest) ==
  IF newest # 0 THEN getters[Len(getters)] ELSE FetchGetter(getters)

\* response = self.cache[newest[0]].data[newest[1]]
CachedResponse(cch, getter) == Index(cch[getter[1]].data, getter[2])

StoreAlone(cch, location, response, t) ==
  location :> CacheEntry(location, response, t)

\* self.cache[getter[0]] = CacheEntry(getter[0], response)
Store(cch, location, response, t) ==
  (location :> CacheEntry(location, response, t)) @@ cch

RemapOrNone(entry, raw, response) ==
  IF raw \/ entry.valueMap.none THEN response
  ELSE IF response \in DOMAIN entry.valueMap.map THEN entry.valueMap.map[response]
  ELSE Null

\* The value returned for an extracted response: raw, unmapped, or mapped
\* with the raw value as the fall-back of a failed valueMap lookup.
Remap(entry, raw, response) ==
  IF raw \/ entry.valueMap.none THEN response
  ELSE IF response \in DOMAIN entry.valueMap.map THEN entry.valueMap.map[response]
  ELSE response

\* A call of _get that does nothing but return None.
NoCall(key, raw, cch, t) ==
  [key |-> key, raw |-> raw, t0 |-> t, t1 |-> t, pre |-> cch, post |-> cch,
   gets |-> <<>>, newest |-> 0, src |-> "none", resp |-> Refused, ext |-> Return(Null),
   out |-> Return(Null)]

\* Lines 147-165 of _get: the extraction loop over the split path of
\* getter, then the value mapping.  response is the outcome of obtaining
\* the payload (or of the first indexing, on the cached path).
Finish(entry, raw, getter, response) ==
  IF response.kind # "return" THEN [ext |-> response, out |-> response]
  ELSE LET ext == Descend(response.val, Split(getter[2]), 1)
       IN [ext |-> ext,
           out |-> IF ext.kind # "return" THEN ext
                   ELSE Return(Remap(entry, raw, ext.val))]

ObtainSliding(getters, cch, newest, tStore, resp) ==
  IF newest # 0
  THEN [response |-> CachedResponse(cch, getters[newest]),
        post |-> (getters[newest][1] :> [cch[getters[newest][1]] EXCEPT !.time = tStore])
                 @@ cch,
        gets |-> <<>>, src |-> "cache", resp |-> Refused]
  ELSE LET location == FetchGetter(getters)[1]
       IN [response |-> IF ~resp.conn THEN Raise("socket.error")
                        ELSE IF ~resp.json THEN Raise("ValueError")
                        ELSE Return(resp.body),
           post |-> IF resp.conn /\ resp.json
                    THEN Store(cch, location, resp.body, tStore) ELSE cch,
           gets |-> <<location>>, src |-> "live", resp |-> resp]

ObtainExtractFirst(getters, cch, newest, tStore, resp) ==
  IF newest # 0
  THEN [response |-> CachedResponse(cch, getters[newest]), post |-> cch,
        gets |-> <<>>, src |-> "cache", resp |-> Refused]
  ELSE LET location == FetchGetter(getters)[1]
       IN [response |-> IF ~resp.conn THEN Raise("socket.error")
                        ELSE IF ~resp.json THEN Raise("ValueError")
                        ELSE Return(resp.body),
           post |-> IF /\ resp.conn
                       /\ resp.json
                       /\ Descend(resp.body, Split(FetchGetter(getters)[2]), 1).kind
                            = "return"
                    THEN Store(cch, location, resp.body, tStore) ELSE cch,
           gets |-> <<location>>, src |-> "live", resp |-> resp]

\* Lines 131-145 of _get, given the newest found by the cache loop: what
\* the call obtains, the cache it leaves, the GETs it sends and the answer
\* to its GET (resp; of no meaning for a call that sends none).
Obtain(getters, cch, newest, tStore, resp) ==
  IF newest # 0
  THEN [response |-> CachedResponse(cch, getters[newest]), post |-> cch,
        gets |-> <<>>, src |-> "cache", resp |-> Refused]
  ELSE LET location == FetchGetter(getters)[1]
       IN [response |-> IF ~resp.conn THEN Raise("socket.error")
                        ELSE IF ~resp.json THEN Raise("ValueError")
                        ELSE Return(resp.body),
           post |-> IF resp.conn /\ resp.json
                    THEN Store(cch, location, resp.body, tStore) ELSE cch,
           gets |-> <<location>>, src |-> "live", resp |-> resp]

GetRecord(key, raw, t, t1, cch, newest, got, fin) ==
  [key |-> key, raw |-> raw, t0 |-> t, t1 |-> t1, pre |-> cch, post |-> got.post,
   gets |-> got.gets, newest |-> newest, src |-> got.src, resp |-> got.resp,
   ext |-> fin.ext,
   out |-> fin.out]

GetFound(entry, key, raw, cch, t, tk, resp, newest, got) ==
  GetRecord(key, raw, t, ClkEnd(t, tk), cch, newest, got,
            Finish(entry, raw, PathGetter(entry.getters, newest), got.response))

GetEntry(entry, key, raw, cch, t, tk, resp, newest) ==
  GetFound(entry, key, raw, cch, t, tk, resp, newest,
           Obtain(entry.getters, cch, newest, Clk(t, tk, Reads(entry.getters)), resp))

\* _get(key, raw) entered at time t with cache cch; tk are the clock ticks
\* during the call and resp is what the transport gives if it is asked.
Get(reg, cch, ttl, key, raw, t, tk, resp) ==
  IF ~HasKey(reg, key) THEN NoCall(key, raw, cch, t)
  ELSE GetEntry(reg[key], key, raw, cch, t, tk, resp,
                Scan(reg[key].getters, cch, ttl, t, tk, 1, 0))

(***************************************************************************)
(* The public read accessors: the _get calls each one makes, in order, as   *)
(* <<key, raw>> with the raw argument it hands to _get.                     *)
(***************************************************************************)
Accessors ==
  {"getCurrentTemp", "getTstatMode", "getFanMode", "getOverride", "getHoldState",
   "getHeatPoint", "getCoolPoint", "getSetPoints", "getModel", "getTState",
   "getFanState", "getHeatUsageToday", "getHeatUsageYesterday",
   "getCoolUsageToday", "getCoolUsageYesterday"}

Plan(name, raw) ==
  CASE name = "getCurrentTemp" -> << <<"temp", raw>> >>
    [] name = "getTstatMode" -> << <<"tmode", raw>> >>
    [] name = "getFanMode" -> << <<"fmode", raw>> >>
    [] name = "getOverride" -> << <<"override", raw>> >>
    [] name = "getHoldState" -> << <<"hold", raw>> >>
    [] name = "getHeatPoint" -> << <<"t_heat", raw>> >>
    [] name = "getCoolPoint" -> << <<"t_cool", raw>> >>
    [] name = "getSetPoints" -> << <<"t_heat", FALSE>>, <<"t_cool", FALSE>> >>
    [] name = "getModel" -> << <<"model", raw>> >>
    [] name = "getTState" -> << <<"tstate", raw>> >>
    [] name = "getFanState" -> << <<"fstate", raw>> >>
    [] name = "getHeatUsageToday" -> << <<"today_heat_runtime", FALSE>> >>
    [] name = "getHeatUsageYesterday" -> << <<"yesterday_heat_runtime", FALSE>> >>
    [] name = "getCoolUsageToday" -> << <<"today_cool_runtime", FALSE>> >>
    [] name = "getCoolUsageYesterday" -> << <<"yesterday_cool_runtime", FALSE>> >>

\* The clock ticks that can fall into a _get call for key.
TicksFor(reg, cch, key) ==
  IF HasKey(reg, key) THEN TickPlacements(reg[key].getters, cch) ELSE {NoTicks}

\* What the transport can answer to the GET of a _get call for key; the
\* transport is asked only by a call that finds no valid cache entry.
ResponsesFor(reg, cch, ttl, key, t, tk) ==
  IF HasKey(reg, key) /\ Scan(reg[key].getters, cch, ttl, t, tk, 1, 0) = 0
  THEN Responses(FetchGetter(reg[key].getters)[1])
  ELSE {Refused}

(***************************************************************************)
(* The state machine.  last is the record of the operation that ran last:   *)
(* its argument, the cacheExpiry it found, the cache it found, its _get     *)
(* calls in order, the POSTs it sent, and what it gave its caller (arg is   *)
(* newExpiry, or the state flag of setCloudMode as 0 or 1).  fetchedBy is   *)
(* a history variable: for each cache entry, the key whose _get call        *)
(* stored it.  threads holds the position of each thread that is inside     *)
(* _get; the client used from one thread has none.                          *)
(***************************************************************************)
NoThreads == <<>>

\* The call stored a cache entry (line 145 was reached).
Stored(call) ==
  call.src = "live" /\ call.ext.kind \notin {"socket.error", "ValueError"}

Fetchers(by, call) ==
  IF Stored(call) THEN (call.gets[1] :> call.key) @@ by ELSE by

InitWith(regs) ==
  /\ now = 0
  /\ cacheExpiry \in 0..MaxTTL
  /\ cache = <<>>
  /\ api \in regs
  /\ fetchedBy = <<>>
  /\ threads = NoThreads
  /\ last = [op |-> "init", name |-> "", raw |-> FALSE, arg |-> 0, ttl |-> cacheExpiry,
             posts |-> <<>>, pre |-> <<>>, calls |-> <<>>, out |-> Return(Null)]

Init == InitWith(Registries)

\* t._get(key, raw)
GetCall(key, raw) ==
  \E tk \in TicksFor(api, cache, key) :
  \E resp \in ResponsesFor(api, cache, cacheExpiry, key, now, tk) :
    \E call \in {Get(api, cache, cacheExpiry, key, raw, now, tk, resp)} :
       /\ call.t1 <= MaxTime
       /\ cache' = call.post
       /\ now' = call.t1
       /\ last' = [op |-> "get", name |-> "_get", raw |-> raw, arg |-> 0, ttl |-> cacheExpiry,
                   posts |-> <<>>, pre |-> cache, calls |-> <<call>>, out |-> call.out]
       /\ fetchedBy' = Fetchers(fetchedBy, call)
       /\ UNCHANGED <<cacheExpiry, api, threads>>

\* The second _get call of an accessor that makes two, entered when the
\* first has returned.
SecondCall(name, raw, plan, first) ==
  \E tk \in TicksFor(api, first.post, plan[2][1]) :
  \E resp \in ResponsesFor(api, first.post, cacheExpiry, plan[2][1], first.t1, tk) :
  \E call \in {Get(api, first.post, cacheExpiry, plan[2][1], plan[2][2],
                   first.t1, tk, resp)} :
    /\ call.t1 <= MaxTime
    /\ cache' = call.post
    /\ now' = call.t1
    /\ last' = [op |-> "get", name |-> name, raw |-> raw, arg |-> 0, ttl |-> cacheExpiry,
                posts |-> <<>>, pre |-> cache, calls |-> <<first, call>>,
                out |-> IF call.out.kind # "return" THEN call.out
                        ELSE Return(Tuple2(first.out.val, call.out.val))]
    /\ fetchedBy' = Fetchers(Fetchers(fetchedBy, first), call)

\* t.getXxx(raw): the _get calls of Plan in order; an exception of the
\* first call ends the accessor.
Accessor(name, raw) ==
  LET plan == Plan(name, raw)
  IN \E tk \in TicksFor(api, cache, plan[1][1]) :
     \E resp \in ResponsesFor(api, cache, cacheExpiry, plan[1][1], now, tk) :
     \E call \in {Get(api, cache, cacheExpiry, plan[1][1], plan[1][2], now, tk, resp)} :
       /\ call.t1 <= MaxTime
       /\ IF Len(plan) = 2 /\ call.out.kind = "return"
          THEN SecondCall(name, raw, plan, call)
          ELSE /\ cache' = call.post
               /\ now' = call.t1
               /\ last' = [op |-> "get", name |-> name, raw |-> raw,
                           arg |-> 0, ttl |-> cacheExpiry, posts |-> <<>>, pre |-> cache, calls |-> <<call>>,
                           out |-> call.out]
               /\ fetchedBy' = Fetchers(fetchedBy, call)
       /\ UNCHANGED <<cacheExpiry, api, threads>>

SetCacheExpiryFlush(newExpiry) ==
  /\ cacheExpiry' = newExpiry
  /\ cache' = <<>>
  /\ last' = [op |-> "setCacheExpiry", name |-> "", raw |-> FALSE, arg |-> newExpiry,
              ttl |-> cacheExpiry, posts |-> <<>>, pre |-> cache, calls |-> <<>>, out |-> Return(Null)]
  /\ UNCHANGED <<now, api, fetchedBy, threads>>

\* datetime.timedelta(seconds=newExpiry), in ticks of the clock
Timedelta(seconds) == seconds

\* t.setCacheExpiry(newExpiry)
SetCacheExpiry(newExpiry) ==
  /\ cacheExpiry' = Timedelta(newExpiry)
  /\ last' = [op |-> "setCacheExpiry", name |-> "", raw |-> FALSE, arg |-> newExpiry,
              ttl |-> cacheExpiry, posts |-> <<>>, pre |-> cache, calls |-> <<>>, out |-> Return(Null)]
  /\ UNCHANGED <<now, cache, api, fetchedBy, threads>>

\* urllib.urlencode of a dict of one field
Urlencode(name, value) == <<name, "=", value>>

\* What the device can answer to a POST.
PostResponses == {Refused, NotFound, Ok(Null)}

\* _post(location, params): the POST sent and what the caller gets, the
\* response object (its status) or the exception of a refused connection.
Post(location, params, resp) ==
  [sent |-> <<[location |-> location, params |-> params]>>,
   out |-> IF resp.conn THEN Return(Num(resp.status)) ELSE Raise("socket.error")]

SetCloudModeInvalidate(state) ==
  \E resp \in PostResponses :
    LET post == Post("/cloud/mode", Urlencode("command", IF ~state THEN "off" ELSE "on"), resp)
    IN /\ last' = [op |-> "setCloudMode", name |-> "", raw |-> FALSE,
                   arg |-> IF state THEN 1 ELSE 0, ttl |-> cacheExpiry,
                   posts |-> post.sent, pre |-> cache, calls |-> <<>>, out |-> post.out]
       /\ cache' = <<>>
       /\ UNCHANGED <<now, cacheExpiry, api, fetchedBy, threads>>

\* t.setCloudMode(state)
SetCloudMode(state) ==
  \E resp \in PostResponses :
    LET command == IF ~state THEN "off" ELSE "on"
        post == Post("/cloud/mode", Urlencode("command", command), resp)
    IN /\ last' = [op |-> "setCloudMode", name |-> "", raw |-> FALSE,
                   arg |-> IF state THEN 1 ELSE 0, ttl |-> cacheExpiry,
                   posts |-> post.sent, pre |-> cache, calls |-> <<>>, out |-> post.out]
       /\ UNCHANGED <<now, cacheExpiry, cache, api, fetchedBy, threads>>

\* The wall clock advances between two operations.
Tick ==
  /\ now < MaxTime
  /\ now' = now + 1
  /\ UNCHANGED <<cacheExpiry, cache, api, last, fetchedBy, threads>>

Next ==
  \/ \E key \in DOMAIN api \cup {UnknownKey}, raw \in BOOLEAN : GetCall(key, raw)
  \/ \E newExpiry \in 0..MaxTTL : SetCacheExpiry(newExpiry)
  \/ \E state \in BOOLEAN : SetCloudMode(state)
  \/ Tick

Spec == Init /\ [][Next]_vars

(***************************************************************************)
(* The client used through its public accessors.                            *)
(***************************************************************************)
InitAcc == InitWith({SetPointAPI, DatalogAPI})

NextAcc ==
  \/ \E name \in Accessors, raw \in BOOLEAN : Accessor(name, raw)
  \/ \E newExpiry \in 0..MaxTTL : SetCacheExpiry(newExpiry)
  \/ \E state \in BOOLEAN : SetCloudMode(state)
  \/ Tick

SpecAcc == InitAcc /\ [][NextAcc]_vars

(***************************************************************************)
(* Construction.  The state "new" is TStat.__init__ after line 68: the      *)
(* cacheExpiry argument is set, the cache is empty, self.api is not yet     *)
(* assigned.  Construct(api) runs lines 74-78 with the api argument (NoAPI  *)
(* for None); if getModel raises, so does the constructor and there is no   *)
(* client ("failed").                                                       *)
(***************************************************************************)
SuppliedAPIs == {ScenarioAPI}

Constructed == last.op \notin {"new", "failed"}

InitNew ==
  /\ now = 0
  /\ cacheExpiry \in 0..MaxTTL
  /\ cache = <<>>
  /\ api = NoAPI
  /\ fetchedBy = <<>>
  /\ threads = NoThreads
  /\ last = [op |-> "new", name |-> "", raw |-> FALSE, arg |-> 0, ttl |-> cacheExpiry,
             posts |-> <<>>, pre |-> <<>>, calls |-> <<>>, out |-> Return(Null)]

ConstructUnprobed(apiArg) ==
  /\ last.op = "new"
  /\ api' = IF apiArg = NoAPI THEN GetAPI(Str("CT50")) ELSE apiArg
  /\ last' = [last EXCEPT !.op = "construct",
                          !.name = IF apiArg = NoAPI THEN "detected" ELSE "supplied"]
  /\ UNCHANGED <<now, cacheExpiry, cache, fetchedBy, threads>>

\* TStat(address, cacheExpiry, api=apiArg), lines 74-78
Construct(apiArg) ==
  /\ last.op = "new"
  /\ IF apiArg # NoAPI
     THEN /\ api' = apiArg
          /\ last' = [last EXCEPT !.op = "construct", !.name = "supplied"]
          /\ UNCHANGED <<now, cache, fetchedBy>>
     ELSE \E tk \in TicksFor(BaseAPI, cache, "model") :
          \E resp \in ResponsesFor(BaseAPI, cache, cacheExpiry, "model", now, tk) :
          \E call \in {Get(BaseAPI, cache, cacheExpiry, "model", FALSE, now, tk, resp)} :
            /\ call.t1 <= MaxTime
            /\ api' = IF call.out.kind = "return" THEN GetAPI(call.out.val) ELSE BaseAPI
            /\ cache' = call.post
            /\ now' = call.t1
            /\ fetchedBy' = Fetchers(fetchedBy, call)
            /\ last' = [last EXCEPT !.op = IF call.out.kind = "return"
                                           THEN "construct" ELSE "failed",
                                    !.name = "detected", !.calls = <<call>>,
                                    !.out = call.out]
  /\ UNCHANGED <<cacheExpiry, threads>>

NextCtor ==
  \/ \E apiArg \in SuppliedAPIs \cup {NoAPI} : Construct(apiArg)
  \/ Constructed /\ \E key \in DOMAIN api \cup {UnknownKey}, raw \in BOOLEAN : GetCall(key, raw)
  \/ Constructed /\ \E newExpiry \in 0..MaxTTL : SetCacheExpiry(newExpiry)
  \/ Tick

SpecCtor == InitNew /\ [][NextCtor]_vars

(***************************************************************************)
(* One client used by two threads without a lock.  A thread inside _get     *)
(* is at one of its accesses to the shared cache or at the GET, which       *)
(* blocks; the steps of the threads interleave:                             *)
(*   ThreadCall     lines 95-132, has_key and the cache loop;               *)
(*   ThreadCached   line 135 and the rest of the call, after a hit;         *)
(*   ThreadRequest  lines 138-143, the GET and its answer, after a miss;    *)
(*   ThreadStore    line 145 and the rest of the call;                      *)
(*   ThreadReturn   the caller has the result.                              *)
(* A thread's record keeps the key, the winner of its cache loop, the time  *)
(* of its check, of its GET and of its store, the body it received, the     *)
(* time of the entry its store replaced (-1: none) and the outcome.         *)
(***************************************************************************)
Threads == {"t1", "t2"}

IdleThread ==
  [pc |-> "idle", key |-> "", newest |-> 0, src |-> "none", body |-> Null,
   tCheck |-> 0, tGet |-> 0, tStore |-> 0, prev |-> 0, out |-> Return(Null)]

ThreadCall(th, key) ==
  /\ threads[th].pc = "idle"
  /\ HasKey(api, key)
  /\ LET newest == Scan(api[key].getters, cache, cacheExpiry, now, NoTicks, 1, 0)
     IN threads' = [threads EXCEPT ![th] =
                      [IdleThread EXCEPT !.pc = IF newest # 0 THEN "cached" ELSE "request",
                                         !.key = key, !.newest = newest,
                                         !.tCheck = now]]
  /\ UNCHANGED <<now, cacheExpiry, cache, api, last, fetchedBy>>

ThreadCached(th) ==
  /\ threads[th].pc = "cached"
  /\ LET entry == api[threads[th].key]
         fin == Finish(entry, FALSE, PathGetter(entry.getters, threads[th].newest),
                       CachedResponse(cache, entry.getters[threads[th].newest]))
     IN threads' = [threads EXCEPT ![th] =
                      [@ EXCEPT !.pc = "done", !.src = "cache", !.out = fin.out]]
  /\ UNCHANGED <<now, cacheExpiry, cache, api, last, fetchedBy>>

\* The answer to the GET of a thread: a decoded body, or the exception
\* that ends the call.
Answered(thread, t, resp) ==
  IF resp.conn /\ resp.json
  THEN [thread EXCEPT !.pc = "store", !.src = "live", !.tGet = t, !.body = resp.body]
  ELSE [thread EXCEPT !.pc = "done", !.src = "live", !.tGet = t,
                      !.out = IF resp.conn THEN Raise("ValueError")
                              ELSE Raise("socket.error")]

ThreadRequestRechecked(th) ==
  /\ threads[th].pc = "request"
  /\ \E resp \in Responses(FetchGetter(api[threads[th].key].getters)[1]) :
       LET newest == Scan(api[threads[th].key].getters, cache, cacheExpiry, now,
                          NoTicks, 1, 0)
       IN threads' = [threads EXCEPT ![th] =
                        IF newest # 0
                        THEN [@ EXCEPT !.pc = "cached", !.newest = newest]
                        ELSE Answered(@, now, resp)]
  /\ UNCHANGED <<now, cacheExpiry, cache, api, last, fetchedBy>>

ThreadRequest(th) ==
  /\ threads[th].pc = "request"
  /\ \E resp \in Responses(FetchGetter(api[threads[th].key].getters)[1]) :
       threads' = [threads EXCEPT ![th] = Answered(@, now, resp)]
  /\ UNCHANGED <<now, cacheExpiry, cache, api, last, fetchedBy>>

ThreadStore(th) ==
  /\ threads[th].pc = "store"
  /\ LET entry == api[threads[th].key]
         getter == FetchGetter(entry.getters)
         fin == Finish(entry, FALSE, getter, Return(threads[th].body))
     IN /\ cache' = Store(cache, getter[1], threads[th].body, now)
        /\ threads' = [threads EXCEPT ![th] =
                         [@ EXCEPT !.pc = "done", !.tStore = now,
                                   !.prev = IF getter[1] \in DOMAIN cache
                                            THEN cache[getter[1]].time ELSE -1,
                                   !.out = fin.out]]
  /\ UNCHANGED <<now, cacheExpiry, api, last, fetchedBy>>

ThreadReturn(th) ==
  /\ threads[th].pc = "done"
  /\ threads' = [threads EXCEPT ![th] = IdleThread]
  /\ UNCHANGED <<now, cacheExpiry, cache, api, last, fetchedBy>>

InitThreads ==
  /\ now = 0
  /\ cacheExpiry \in 0..MaxTTL
  /\ cache = <<>>
  /\ api = ScenarioAPI
  /\ fetchedBy = <<>>
  /\ threads = [th \in Threads |-> IdleThread]
  /\ last = [op |-> "init", name |-> "", raw |-> FALSE, arg |-> 0, ttl |-> cacheExpiry,
             posts |-> <<>>, pre |-> <<>>, calls |-> <<>>, out |-> Return(Null)]

NextThreads ==
  \/ \E th \in Threads, key \in DOMAIN api : ThreadCall(th, key)
  \/ \E th \in Threads : ThreadCached(th)
  \/ \E th \in Threads : ThreadRequest(th)
  \/ \E th \in Threads : ThreadStore(th)
  \/ \E th \in Threads : ThreadReturn(th)
  \/ Tick

SpecThreads == InitThreads /\ [][NextThreads]_vars

(***************************************************************************)
(* Properties.  They read the record of the operation that ran last.        *)
(***************************************************************************)
\* The _get calls of the operation that ran last.
LastCalls ==
  IF last.op = "get" THEN {last.calls[i] : i \in 1..Len(last.calls)} ELSE {}

Known(c) == HasKey(api, c.key)
GettersOf(c) == api[c.key].getters
LocationOf(c, i) == GettersOf(c)[i][1]
PathOf(c, i) == GettersOf(c)[i][2]

\* The age, at time t, of the entry the call found for its i-th getter.
AgeAt(c, i, t) == t - c.pre[LocationOf(c, i)].time

\* The call found an entry for its i-th getter whose age stayed below ttl
\* for the whole call.
ValidThroughout(c, i, ttl) ==
  /\ LocationOf(c, i) \in DOMAIN c.pre
  /\ AgeAt(c, i, c.t1) < ttl

\* The call found no entry for its i-th getter, or one whose age had
\* reached ttl when the call was entered.
ExpiredAtEntry(c, i, ttl) ==
  \/ LocationOf(c, i) \notin DOMAIN c.pre
  \/ AgeAt(c, i, c.t0) >= ttl

\* The transport failed: no payload was decoded.
TransportFailed(c) == c.ext.kind \in {"socket.error", "ValueError"}

\* C1: key A is fetched live; a call for another key B, all of whose
\* getters name the endpoint A was fetched from, made while that entry is
\* younger than the TTL, sends no GET (one GET in total for the two calls)
\* and gives what is found at B's own jsonPath in the payload A fetched.
C1_SharedEndpointOneFetch ==
  \A c \in LastCalls :
    (/\ Known(c)
     /\ \A i \in 1..Len(GettersOf(c)) : LocationOf(c, i) = LocationOf(c, 1)
     /\ ValidThroughout(c, 1, last.ttl)
     /\ fetchedBy[LocationOf(c, 1)] # c.key)
    => /\ c.gets = <<>>
       /\ c.ext = Descend(c.pre[LocationOf(c, 1)].data, Split(PathOf(c, 1)), 1)

C3_ExpiryBoundary ==
  \A c \in LastCalls :
    Known(c) =>
      /\ (\A i \in 1..Len(GettersOf(c)) : ExpiredAtEntry(c, i, last.ttl))
         => (c.src = "live" /\ Len(c.gets) = 1)
      /\ (\E i \in 1..Len(GettersOf(c)) : ValidThroughout(c, i, last.ttl))
         => (c.src = "cache" /\ c.gets = <<>>)

C3_Witness ==
  \E c \in LastCalls :
    /\ Known(c)
    /\ c.t1 = c.t0
    /\ LocationOf(c, 1) \in DOMAIN c.pre
    /\ AgeAt(c, 1, c.t0) = last.ttl
    /\ last.ttl > 0
    /\ c.src = "live"

\* C4: a call that finds no valid candidate entry sends exactly one GET,
\* to the endpoint of the first getter; if a payload is decoded it is
\* stored under that address with the time of the store, no other entry
\* changes, and the value is extracted from it with the first getter's path.
C4_LiveFetchFallback ==
  \A c \in LastCalls :
    (Known(c) /\ c.src = "live") =>
      /\ c.gets = <<LocationOf(c, 1)>>
      /\ TransportFailed(c) => c.post = c.pre
      /\ ~TransportFailed(c) =>
           /\ DOMAIN c.post = DOMAIN c.pre \cup {LocationOf(c, 1)}
           /\ \A l \in DOMAIN c.pre : l # LocationOf(c, 1) => c.post[l] = c.pre[l]
           /\ c.post[LocationOf(c, 1)].location = LocationOf(c, 1)
           /\ c.post[LocationOf(c, 1)].data = c.resp.body
           /\ c.post[LocationOf(c, 1)].time \in c.t0..c.t1
           /\ c.ext = Descend(c.post[LocationOf(c, 1)].data, Split(PathOf(c, 1)), 1)

C4_Witness ==
  \E c \in LastCalls :
    /\ Known(c)
    /\ Len(GettersOf(c)) = 2
    /\ LocationOf(c, 1) \in DOMAIN c.pre
    /\ LocationOf(c, 2) \in DOMAIN c.pre
    /\ c.src = "live"
    /\ c.ext.kind = "return"
    /\ c.post[LocationOf(c, 1)] # c.pre[LocationOf(c, 1)]

\* C5: with cacheExpiry 0 every call for a registered key sends a live GET,
\* whatever the cache holds.
C5_ZeroTTLAlwaysFetches ==
  \A c \in LastCalls :
    (Known(c) /\ last.ttl = 0) => (c.src = "live" /\ Len(c.gets) = 1)

C5_Witness ==
  \E c \in LastCalls :
    /\ Known(c)
    /\ last.ttl = 0
    /\ LocationOf(c, 1) \in DOMAIN c.pre
    /\ AgeAt(c, 1, c.t1) = 0
    /\ c.src = "live"

\* C6: a _get call for a key that is not in the registry fails with an
\* error (it does not return), sends no GET and leaves the cache unchanged.
C6_UnknownKeyFails ==
  \A c \in LastCalls :
    ~Known(c) => (c.out.kind # "return" /\ c.gets = <<>> /\ c.post = c.pre)

\* C7: the value a call returns for an extracted value v is v if raw is
\* set or the key has no valueMap, else valueMap[v] if v is a key of
\* valueMap, else v; a value absent from valueMap never makes the call fail.
C7_RemapFallback ==
  \A c \in LastCalls :
    (Known(c) /\ c.ext.kind = "return") =>
      LET v == c.ext.val
          valueMap == api[c.key].valueMap
      IN /\ c.out.kind = "return"
         /\ (c.raw \/ valueMap.none) => c.out.val = v
         /\ (~c.raw /\ ~valueMap.none /\ v \in DOMAIN valueMap.map)
            => c.out.val = valueMap.map[v]
         /\ (~c.raw /\ ~valueMap.none /\ v \notin DOMAIN valueMap.map)
            => c.out.val = v

C7_Witness ==
  \E c \in LastCalls :
    /\ Known(c)
    /\ ~c.raw
    /\ ~api[c.key].valueMap.none
    /\ c.ext.kind = "return"
    /\ c.ext.val \notin DOMAIN api[c.key].valueMap.map
    /\ c.out = Return(c.ext.val)

\* C8: every public read accessor called with raw set returns the
\* extracted value without applying the key's valueMap.
C8_AccessorsHonourRaw ==
  (last.op = "get" /\ last.name \in Accessors /\ last.raw) =>
    \A c \in LastCalls :
      (Known(c) /\ c.ext.kind = "return") => c.out = Return(c.ext.val)

\* C9: a call that obtains a payload, from a live fetch with the first
\* getter or from the valid cache entry of the winning getter, gives the
\* result of descending that payload along the getter's jsonPath split on
\* "/": the value found, or a path error if a sub-key is missing.
C9_ExtractionAlongSplitPath ==
  \A c \in LastCalls :
    Known(c) =>
      /\ (c.src = "live" /\ ~TransportFailed(c))
         => c.ext = Descend(c.post[LocationOf(c, 1)].data, Split(PathOf(c, 1)), 1)
      /\ c.src = "cache"
         => c.ext = Descend(c.pre[LocationOf(c, c.newest)].data,
                            Split(PathOf(c, c.newest)), 1)

\* C10: setCacheExpiry(d) changes cacheExpiry to d and nothing else (no
\* cache entry, no GET), and every later call judges every entry it finds
\* by its age against the cacheExpiry then in force, whenever it was stored.
C10_ExpiryTakesEffectAtOnce ==
  /\ last.op = "setCacheExpiry"
     => (cacheExpiry = last.arg /\ cache = last.pre /\ last.calls = <<>>)
  /\ last.op = "get" =>
       /\ cacheExpiry = last.ttl
       /\ \A c \in LastCalls :
            Known(c) =>
              /\ (\A i \in 1..Len(GettersOf(c)) : ExpiredAtEntry(c, i, cacheExpiry))
                 => c.src = "live"
              /\ (\E i \in 1..Len(GettersOf(c)) : ValidThroughout(c, i, cacheExpiry))
                 => c.src = "cache"

\* setCacheExpiry has just raised the TTL over the age of a stored entry
\* that was expired under the TTL it replaced.
C10_Witness ==
  /\ last.op = "setCacheExpiry"
  /\ \E l \in DOMAIN cache :
       /\ now - cache[l].time >= last.ttl
       /\ now - cache[l].time < cacheExpiry

\* The getter a _get call for key would take from the cache in this state
\* (0: none, the call would fetch).
WouldWin(key) == Scan(api[key].getters, cache, cacheExpiry, now, NoTicks, 1, 0)

C12_WinnersOwnPath ==
  \A c \in LastCalls :
    (/\ Known(c)
     /\ Len(GettersOf(c)) >= 3
     /\ c.src = "cache"
     /\ c.newest \notin {1, Len(GettersOf(c))})
    => c.ext = Descend(c.pre[LocationOf(c, c.newest)].data,
                       Split(PathOf(c, c.newest)), 1)

\* C13: when two candidate getters of a call have valid entries stored at
\* the same time (the same entry, if they name one endpoint), the later of
\* the two in the getter list is not the winner, wherever the clock ticks
\* during the call.
C13_TieFirstSeenWins ==
  \A c \in LastCalls :
    Known(c) =>
      \A i, j \in 1..Len(GettersOf(c)) :
        (/\ i < j
         /\ ValidThroughout(c, i, last.ttl)
         /\ ValidThroughout(c, j, last.ttl)
         /\ c.pre[LocationOf(c, i)].time = c.pre[LocationOf(c, j)].time)
        => c.newest # j

\* C14: a call whose live GET is refused, or answered with a status other
\* than 200, or with a body that is not JSON, fails with a transport error
\* after that one request, returns no value and leaves the cache as it
\* found it.
C14_TransportFailure ==
  \A c \in LastCalls :
    (/\ Known(c)
     /\ c.src = "live"
     /\ (~c.resp.conn \/ c.resp.status # 200 \/ ~c.resp.json))
    => /\ c.out.kind \in {"socket.error", "ValueError"}
       /\ Len(c.gets) = 1
       /\ c.post = c.pre

\* C15: no step removes a cache entry: every address of the cache stays in
\* it, and an entry (expired or not) keeps its payload and its time in
\* every step but one in which a _get call fetched that very address live
\* and stored the answer; a new address enters the cache the same way only.
C15_EntriesNeverRemoved ==
  [][/\ DOMAIN cache \subseteq DOMAIN cache'
     /\ \A l \in DOMAIN cache' :
          (l \notin DOMAIN cache \/ cache'[l] # cache[l])
          => /\ last'.op = "get"
             /\ \E i \in 1..Len(last'.calls) :
                  /\ last'.calls[i].gets = <<l>>
                  /\ Stored(last'.calls[i])
                  /\ cache'[l].data = last'.calls[i].resp.body]_vars

\* A live fetch of one endpoint has just stored its entry, and the expired
\* entry of another endpoint is still in the cache as it was.
C15_Witness ==
  /\ last.op = "get"
  /\ \E c \in LastCalls :
       /\ Stored(c)
       /\ \E l \in DOMAIN cache :
            /\ l # c.gets[1]
            /\ cacheExpiry > 0
            /\ now - cache[l].time >= cacheExpiry
            /\ cache[l] = c.pre[l]

\* The endpoint a thread inside _get fetches on a miss.
ThreadLocation(th) == FetchGetter(api[threads[th].key].getters)[1]

\* C16: nothing makes check, fetch and store atomic.  A thread that found
\* no valid entry sends its GET whatever the cache holds when it gets to
\* it, and stores its answer over whatever entry is there; and when a
\* thread that found no valid entry is about to fetch or store while a
\* valid entry of its endpoint is in the cache, that entry was stored after
\* the thread's check (by the other thread).
C16_CheckThenFetchNotAtomic ==
  /\ [][\A th \in Threads :
          /\ (threads[th].pc = "request" /\ threads'[th] # threads[th])
             => (threads'[th].src = "live" /\ threads'[th].tGet = now)
          /\ (threads[th].pc = "store" /\ threads'[th] # threads[th])
             => cache'[ThreadLocation(th)]
                  = CacheEntry(ThreadLocation(th), threads[th].body, now)]_vars
  /\ [](\A th \in Threads :
          (/\ threads[th].pc \in {"request", "store"}
           /\ ThreadLocation(th) \in DOMAIN cache
           /\ now - cache[ThreadLocation(th)].time < cacheExpiry)
          => cache[ThreadLocation(th)].time >= threads[th].tCheck)

\* Both threads found no valid entry, both sent a GET of the one endpoint
\* within one TTL window, and the store of the second replaced the still
\* valid entry the first had stored.
C16_Witness ==
  \E a, b \in Threads :
    /\ a # b
    /\ threads[a].pc = "done" /\ threads[a].src = "live"
    /\ threads[b].pc = "done" /\ threads[b].src = "live"
    /\ threads[a].out.kind = "return" /\ threads[b].out.kind = "return"
    /\ ThreadLocation(a) = ThreadLocation(b)
    /\ threads[b].tCheck <= threads[a].tStore
    /\ threads[b].tGet - threads[a].tGet < cacheExpiry
    /\ threads[b].prev = threads[a].tStore
    /\ threads[b].tStore - threads[b].prev < cacheExpiry
    /\ threads[a].body # threads[b].body
    /\ cache[ThreadLocation(b)]
         = CacheEntry(ThreadLocation(b), threads[b].body, threads[b].tStore)

\* C17: construction without a registry makes exactly one _get call, for
\* the key model, which sends exactly one GET (from an empty cache) before
\* the registry of the detected model is installed; construction with a
\* registry sends no GET, installs that registry and leaves the cache
\* empty; once construction is over no operation changes the registry.
C17_Construction ==
  /\ [][(last.op = "new" /\ last'.op # "new") =>
          /\ last'.name = "supplied"
             => /\ last'.calls = <<>>
                /\ cache' = <<>>
                /\ api' \in SuppliedAPIs
          /\ last'.name = "detected"
             => /\ Len(last'.calls) = 1
                /\ last'.calls[1].key = "model"
                /\ last'.calls[1].pre = <<>>
                /\ last'.calls[1].gets = <<"/tstat/model">>
                /\ last'.op = "construct"
                   => api' = GetAPI(last'.calls[1].out.val)]_vars
  /\ [][last.op # "new" => api' = api]_vars

\* A client built without a registry: the model was fetched once, the
\* registry of that model is installed, and an accessor has been called
\* since.
C17_Witness ==
  /\ last.op = "get"
  /\ "/tstat/model" \in DOMAIN cache
  /\ fetchedBy["/tstat/model"] = "model"
  /\ api = GetAPI(cache["/tstat/model"].data.o[<<"model">>])
  /\ \E c \in LastCalls : c.key # "model" /\ c.src = "live"

\* C18: a call served from the cache sends no GET and leaves every cache
\* entry as it found it, fetch time included; reading an entry therefore
\* never extends its life, and a call that finds all its candidate entries
\* missing or of age >= TTL sends a live GET.
C18_NoSlidingExpiration ==
  \A c \in LastCalls :
    Known(c) =>
      /\ c.src = "cache"
         => /\ c.gets = <<>>
            /\ c.post = c.pre
            /\ \A l \in DOMAIN c.pre : cache[l].time = c.pre[l].time
      /\ (\A i \in 1..Len(GettersOf(c)) : ExpiredAtEntry(c, i, last.ttl))
         => (c.src = "live" /\ Len(c.gets) = 1)

\* An entry of age 1 or more has just been read from the cache, during a
\* call in which the clock advanced, and has kept its fetch time.
C18_Witness ==
  \E c \in LastCalls :
    /\ Known(c)
    /\ c.src = "cache"
    /\ c.t1 > c.t0
    /\ AgeAt(c, c.newest, c.t1) >= 1
    /\ cache[LocationOf(c, c.newest)].time = c.pre[LocationOf(c, c.newest)].time
    /\ now - cache[LocationOf(c, c.newest)].time < cacheExpiry

\* C19: every address in the cache holds an entry whose location field is
\* that address and was stored by a call for a registry key whose first
\* getter names it; a live fetch goes to the first getter's endpoint only,
\* so an endpoint that wins for a key without being its first getter's was
\* fetched by a call for another key.
C19_CachedEndpointsAreFirstGetters ==
  /\ \A l \in DOMAIN cache :
       /\ cache[l].location = l
       /\ l \in DOMAIN fetchedBy
       /\ HasKey(api, fetchedBy[l])
       /\ api[fetchedBy[l]].getters[1][1] = l
  /\ \A c \in LastCalls :
       Known(c) =>
         /\ c.src = "live" => c.gets = <<LocationOf(c, 1)>>
         /\ (c.src = "cache" /\ LocationOf(c, c.newest) # LocationOf(c, 1))
            => fetchedBy[LocationOf(c, c.newest)] # c.key

\* The second getter of a key has won with an entry that a call for
\* another key fetched.
C19_Witness ==
  \E c \in LastCalls :
    /\ Known(c)
    /\ c.src = "cache"
    /\ c.newest > 1
    /\ LocationOf(c, c.newest) # LocationOf(c, 1)
    /\ fetchedBy[LocationOf(c, c.newest)] # c.key
    /\ api[fetchedBy[LocationOf(c, c.newest)]].getters[1][1] = LocationOf(c, c.newest)

\* C20: a live fetch whose extraction fails with a path error has all the
\* same stored the payload it received, under the endpoint fetched and
\* with the time of the store; as long as that entry is younger than the
\* TTL, a repeat of the call finds it and sends no GET.
C20_StoreBeforeExtract ==
  \A c \in LastCalls :
    (/\ Known(c)
     /\ c.src = "live"
     /\ c.ext.kind \in {"KeyError", "TypeError"})
    => /\ c.out = c.ext
       /\ LocationOf(c, 1) \in DOMAIN cache
       /\ cache[LocationOf(c, 1)].data = c.resp.body
       /\ cache[LocationOf(c, 1)].time \in c.t0..c.t1
       /\ now - cache[LocationOf(c, 1)].time < cacheExpiry
          => WouldWin(c.key) # 0

\* The extraction of a live fetch has failed on a missing sub-key, the
\* payload replaced an older entry of the endpoint, and the new entry is
\* younger than the TTL, so that a repeat of the call would take it.
C20_Witness ==
  \E c \in LastCalls :
    /\ Known(c)
    /\ c.src = "live"
    /\ c.ext.kind = "KeyError"
    /\ LocationOf(c, 1) \in DOMAIN c.pre
    /\ c.pre[LocationOf(c, 1)].data # c.resp.body
    /\ cache[LocationOf(c, 1)].data = c.resp.body
    /\ now - cache[LocationOf(c, 1)].time < cacheExpiry
    /\ WouldWin(c.key) # 0

====
